---- MODULE Spec2Model ----
(***************************************************************************)
(* A model of policy-fetcher: the fetch_policy orchestrator and its        *)
(* destination resolution (src/lib.rs), and the validation of a Docker     *)
(* configuration and the credential-helper lookup                          *)
(* (src/registry/config.rs).                                               *)
(*                                                                         *)
(* Strings are sequences of tokens (a token is a run of characters holding *)
(* neither ':' nor '/', or one of the separators ":", "//", "/"), so that  *)
(* the splits the code performs on ':' and '/' are computed, not assumed.  *)
(* A filesystem path is the sequence of its components.                    *)
(***************************************************************************)
EXTENDS Integers, Sequences, FiniteSets, TLC

VARIABLES
    fs,          \* the filesystem: existing path -> "dir" | "file" | "partial"
    pc,          \* position of the current fetch_policy call
    req,         \* arguments of the current call: [uri, policy]
    parsedUrl,   \* the call's parsed URL (the local url)
    resolved,    \* what pull_destination returned: [ok, store, path]
    ensured,     \* store.ensure of the prefix: "skipped" | "ok" | "failed"
    seen,        \* what the reuse check found at the destination
    reached,     \* the statement at which the call returned or suspended
    fetches,     \* fetcher invocations of the current call
    result,      \* what the call returned
    calls,       \* completed or started calls so far
    populated,   \* <<uri, policy, path, call>> of the calls whose fetch succeeded
    raw,         \* DockerConfigRaw under conversion
    cfgpc,       \* position of the conversion
    config,      \* the DockerConfig produced
    entry,       \* username/password pair under the encode-validate round trip
    entrypc,     \* position of the round trip
    entryAuth,   \* the raw auth text and the validator's answer for it
    helper,      \* behaviour of the credential-helper process
    hpc,         \* position of the credential-helper lookup
    hstate       \* spawn count, stdin, exit status, output and result

vars == <<fs, pc, req, parsedUrl, resolved, ensured, seen, reached, fetches,
          result, calls, populated, raw, cfgpc, config, entry, entrypc, entryAuth,
          helper, hpc, hstate>>

fetchVars == <<fs, pc, req, parsedUrl, resolved, ensured, seen, reached, fetches,
               result, calls, populated>>
configVars == <<raw, cfgpc, config>>
entryVars == <<entry, entrypc, entryAuth>>
helperVars == <<helper, hpc, hstate>>

-----------------------------------------------------------------------------
(* Bounds *)

MaxCalls == 2

\* Longest decoded credential text (username, ':' and password together).
MaxLen == 5

-----------------------------------------------------------------------------
(* Generic sequence helpers *)

Last(s) == s[Len(s)]

Front(s) == SubSeq(s, 1, Len(s) - 1)

\* The string spelled by a token sequence.
Flatten(toks) ==
    LET f[i \in 0..Len(toks)] == IF i = 0 THEN "" ELSE f[i - 1] \o toks[i]
    IN f[Len(toks)]

\* The position of the j-th element of the set of positions at; 0 and
\* len + 1 bracket the text.
SepAt(at, j, len) ==
    IF j = 0 THEN 0
    ELSE IF j > Cardinality(at) THEN len + 1
    ELSE CHOOSE i \in at : Cardinality({k \in at : k < i}) = j - 1

\* str::split / slice::split: the pieces between occurrences of sep; always
\* at least one piece, empty pieces kept.
Split(s, sep) ==
    LET at == {i \in 1..Len(s) : s[i] = sep}
    IN [j \in 1..(Cardinality(at) + 1) |->
           SubSeq(s, SepAt(at, j - 1, Len(s)) + 1, SepAt(at, j, Len(s)) - 1)]

-----------------------------------------------------------------------------
(* URLs: the url crate's parser and serializer, at token granularity *)

\* Schemes the url crate treats as special, of those used here.
SpecialSchemes == {"http", "https", "ftp", "file"}

\* The default port of a scheme ("" when it has none): the parser drops a
\* port equal to it, so Url::port() answers None for it.
DefaultPort(scheme) ==
    CASE scheme = "http" -> "80"
      [] scheme = "https" -> "443"
      [] scheme = "ftp" -> "21"
      [] OTHER -> ""

ParseError ==
    [ok |-> FALSE, scheme |-> "", host |-> "", port |-> "", path |-> <<>>,
     authority |-> FALSE]

\* Url::parse. host = "" and port = "" stand for None.
UrlParse(t) ==
    IF Len(t) < 2 \/ t[2] # ":"
    THEN ParseError                       \* relative URL without a base
    ELSE
      LET scheme == t[1]
          rest == SubSeq(t, 3, Len(t))
          slashes == rest # <<>> /\ rest[1] = "//"
          after == IF slashes THEN Tail(rest) ELSE rest
          k == IF \E i \in 1..Len(after) : after[i] = "/"
               THEN CHOOSE i \in 1..Len(after) :
                        after[i] = "/" /\ \A j \in 1..(i - 1) : after[j] # "/"
               ELSE Len(after) + 1
          auth == SubSeq(after, 1, k - 1)
          pathToks == SubSeq(after, k, Len(after))
          host == IF auth = <<>> \/ auth[1] = ":" THEN "" ELSE auth[1]
          port == IF Len(auth) = 3 /\ auth[2] = ":" THEN auth[3] ELSE ""
      IN IF ~slashes /\ scheme \notin SpecialSchemes
         THEN [ok |-> TRUE, scheme |-> scheme, host |-> "", port |-> "",
               path |-> rest, authority |-> FALSE]
         ELSE IF host = "" /\ scheme \in SpecialSchemes \ {"file"}
         THEN ParseError                  \* empty host
         ELSE [ok |-> TRUE, scheme |-> scheme, host |-> host,
               port |-> IF port = DefaultPort(scheme) THEN "" ELSE port,
               path |-> IF pathToks = <<>> /\ scheme \in SpecialSchemes
                        THEN <<"/">> ELSE pathToks,
               authority |-> TRUE]

\* Url::as_str: the serialization of a parsed URL.
as_str(url) ==
    <<url.scheme, ":">>
    \o (IF url.authority
        THEN <<"//">> \o (IF url.host = "" THEN <<>> ELSE <<url.host>>)
                      \o (IF url.port = "" THEN <<>> ELSE <<":", url.port>>)
        ELSE <<>>)
    \o url.path

\* The '/'-separated pieces of Url::path(), as strings.
PathPieces(url) ==
    LET pieces == Split(url.path, "/")
    IN [i \in 1..Len(pieces) |-> Flatten(pieces[i])]

-----------------------------------------------------------------------------
(* Paths and results *)

\* PathBuf::join with a single relative component; an empty component adds
\* nothing (paths compare by components).
Join(p, name) == IF name = "" THEN p ELSE Append(p, name)

\* PathBuf::join of each component in turn.
JoinAll(p, names) ==
    LET f[i \in 0..Len(names)] == IF i = 0 THEN p ELSE Join(f[i - 1], names[i])
    IN f[Len(names)]

NoStore == <<"no store">>

Ok(p) == [ok |-> TRUE, path |-> p, error |-> ""]

Err(e) == [ok |-> FALSE, path |-> <<>>, error |-> e]

NoResult == Err("pending")

Kind(fsys, p) ==
    IF p = <<>> THEN "dir"                \* the filesystem root
    ELSE IF p \in DOMAIN fsys THEN fsys[p] ELSE "absent"

\* Path::exists
Exists(fsys, p) == Kind(fsys, p) # "absent"

\* Path::is_dir
IsDir(fsys, p) == Kind(fsys, p) = "dir"

-----------------------------------------------------------------------------
(* Destination policies, the Store and destination resolution *)

DefaultRoot == <<"cache">>
CustomRoot == <<"custom">>
Cwd == <<"cwd">>

MainStore == [kind |-> "MainStore", path |-> <<>>]
StoreAt(root) == [kind |-> "Store", path |-> root]
LocalFile(p) == [kind |-> "LocalFile", path |-> p]

\* A host_and_port that leaves the port out.
host_and_port_without_port(url) ==
    IF url.host = ""
    THEN [ok |-> FALSE, value |-> ""]
    ELSE [ok |-> TRUE, value |-> url.host]

\* host_and_port: the host, then ":<port>" when Url::port() is Some.
host_and_port(url) ==
    IF url.host = ""
    THEN [ok |-> FALSE, value |-> ""]
    ELSE [ok |-> TRUE,
          value |-> url.host \o (IF url.port = "" THEN "" ELSE ":" \o url.port)]

\* Store::policy_full_path: root/<scheme>/<host>[:<port>]/<uri-path>, without
\* the final segment of the path under PrefixOnly. It is handed the URL's
\* text and parses it again.
policy_full_path(root, urlText, mode) ==
    LET url == UrlParse(urlText)
        hp == host_and_port(url)
        segs == Tail(PathPieces(url))
        kept == IF mode = "PrefixOnly" THEN Front(segs) ELSE segs
    IN IF ~url.ok \/ ~hp.ok \/ url.path = <<>> \/ url.path[1] # "/"
       THEN Err("InvalidURI")
       ELSE Ok(JoinAll(root \o <<url.scheme, hp.value>>, kept))

\* Store::ensure: create_dir_all. Ancestors are made outermost first; the
\* first one that exists and is no directory fails the call.
ensure(fsys, p) ==
    LET bad == {i \in 1..Len(p) : Kind(fsys, SubSeq(p, 1, i)) \in {"file", "partial"}}
        upto == IF bad = {} THEN Len(p)
                ELSE (CHOOSE i \in bad : \A j \in bad : i <= j) - 1
        made == {SubSeq(p, 1, i) : i \in 1..upto}
    IN [ok |-> bad = {},
        fs |-> [q \in DOMAIN fsys \cup made |-> IF q \in made THEN "dir" ELSE fsys[q]]]

\* A pull_destination that joins the URI's filename onto every LocalFile
\* target, directory or not.
pull_destination_always_joining(url, destination, fsys) ==
    CASE destination.kind = "MainStore" ->
           LET pp == policy_full_path(DefaultRoot, as_str(url), "PrefixAndFilename")
           IN [ok |-> pp.ok, store |-> DefaultRoot, path |-> pp.path]
      [] destination.kind = "Store" ->
           LET pp == policy_full_path(destination.path, as_str(url), "PrefixAndFilename")
           IN [ok |-> pp.ok, store |-> destination.path, path |-> pp.path]
      [] destination.kind = "LocalFile" ->
           [ok |-> TRUE, store |-> NoStore,
            path |-> Join(destination.path, Last(PathPieces(url)))]

\* pull_destination: (Option<Store>, PathBuf), or the error of
\* policy_full_path.
pull_destination(url, destination, fsys) ==
    CASE destination.kind = "MainStore" ->
           LET pp == policy_full_path(DefaultRoot, as_str(url), "PrefixAndFilename")
           IN [ok |-> pp.ok, store |-> DefaultRoot, path |-> pp.path]
      [] destination.kind = "Store" ->
           LET pp == policy_full_path(destination.path, as_str(url), "PrefixAndFilename")
           IN [ok |-> pp.ok, store |-> destination.path, path |-> pp.path]
      [] destination.kind = "LocalFile" ->
           IF IsDir(fsys, destination.path)
           THEN [ok |-> TRUE, store |-> NoStore,
                 path |-> Join(destination.path, Last(PathPieces(url)))]
           ELSE [ok |-> TRUE, store |-> NoStore, path |-> destination.path]

\* Url::to_file_path: a path only for a URL with no host or host localhost.
to_file_path(url) ==
    IF url.host \in {"", "localhost"} /\ url.path # <<>> /\ url.path[1] = "/"
    THEN Ok(JoinAll(<<>>, Tail(PathPieces(url))))
    ELSE Err("cannot retrieve path from uri")

\* url_fetcher: the fetcher selected for a scheme.
url_fetcher(scheme) ==
    CASE scheme = "file" -> "Local"
      [] scheme \in {"http", "https"} -> "Https"
      [] scheme = "registry" -> "Registry"
      [] OTHER -> "unknown scheme"

\* A tag read as the text after the last '/' of the URL.
tag_after_last_slash(url) == Flatten(Last(Split(as_str(url), "/")))

\* The tag the reuse check looks at: url.as_str().split(':').last()
tag(url) == Flatten(Last(Split(as_str(url), ":")))

\* A reuse check that never reuses for http and https.
reuse_for_registry_only(url, fsys, destination) ==
    CASE url.scheme = "registry" ->
           Flatten(Last(Split(as_str(url), ":"))) # "latest" /\ Exists(fsys, destination)
      [] OTHER -> FALSE

\* A reuse check that does not look at the tag.
reuse_whatever_the_tag(url, fsys, destination) ==
    CASE url.scheme \in {"http", "https", "registry"} -> Exists(fsys, destination)
      [] OTHER -> FALSE

\* Whether the reuse check returns the destination without fetching.
reuse(url, fsys, destination) ==
    CASE url.scheme = "registry" -> tag(url) # "latest" /\ Exists(fsys, destination)
      [] url.scheme \in {"http", "https"} -> Exists(fsys, destination)
      [] OTHER -> FALSE

-----------------------------------------------------------------------------
(* Inputs of the orchestrator *)

HttpUri == <<"http", ":", "//", "host.example.com", "/", "path", "/", "to", "/", "policy.wasm">>
HttpPortUri == <<"http", ":", "//", "host.example.com", ":", "1234", "/", "path", "/", "to", "/", "policy.wasm">>
HttpsUri == <<"https", ":", "//", "host.example.com", "/", "path", "/", "to", "/", "policy.wasm">>
HttpsDefaultPortUri == <<"https", ":", "//", "host.example.com", ":", "443", "/", "policy.wasm">>
HttpNestedUri == <<"http", ":", "//", "host.example.com", "/", "path", "/", "to", "/", "policy.wasm", "/", "v2">>
HttpsPortUri == <<"https", ":", "//", "host.example.com", ":", "1234", "/", "path", "/", "to", "/", "policy.wasm">>
HttpRootUri == <<"http", ":", "//", "host.example.com", "/">>
RegistryShortTagUri == <<"registry", ":", "//", "host.example.com", "/", "policy", ":", "tag">>
RegistryTagUri == <<"registry", ":", "//", "host.example.com", "/", "path", "/", "to", "/", "policy", ":", "tag">>
RegistryPortTagUri == <<"registry", ":", "//", "host.example.com", ":", "1234", "/", "path", "/", "to", "/", "policy", ":", "tag">>
RegistryLatestUri == <<"registry", ":", "//", "host.example.com", "/", "policy", ":", "latest">>
RegistryPortLatestUri == <<"registry", ":", "//", "host.example.com", ":", "1234", "/", "policy", ":", "latest">>
RegistryUntaggedUri == <<"registry", ":", "//", "host.example.com", "/", "policy">>
RegistryPortUntaggedUri == <<"registry", ":", "//", "host.example.com", ":", "1234", "/", "latest">>
FileUri == <<"file", ":", "//", "/", "tmp", "/", "policy.wasm">>
FileRemoteUri == <<"file", ":", "//", "remote.example.com", "/", "tmp", "/", "policy.wasm">>
FtpUri == <<"ftp", ":", "//", "host.example.com", "/", "policy.wasm">>
RelativeUri == <<"policy.wasm">>

Uris ==
    {HttpUri, HttpPortUri, HttpsUri, HttpsDefaultPortUri, HttpNestedUri,
     RegistryTagUri, RegistryPortTagUri, RegistryLatestUri,
     RegistryPortLatestUri, RegistryUntaggedUri, RegistryPortUntaggedUri,
     FileUri, FileRemoteUri, FtpUri, RelativeUri}

NamedFile == <<"cwd", "named-policy.wasm">>

Policies == {MainStore, StoreAt(CustomRoot), LocalFile(Cwd), LocalFile(NamedFile)}

\* The requests of the orchestrator's state machine: one URI for each way
\* through fetch_policy.
FetchUris ==
    {HttpUri, HttpNestedUri, HttpsDefaultPortUri, RegistryTagUri,
     RegistryLatestUri, RegistryPortUntaggedUri, FileUri, FileRemoteUri,
     FtpUri, RelativeUri}

FetchPolicies == {MainStore, LocalFile(Cwd), LocalFile(NamedFile)}

\* The inputs of destination resolution: the URIs fetch_policy lets through
\* to pull_destination, every Destination Policy, and filesystems in which
\* the LocalFile target is a directory, a file, or missing.
ResolveUris ==
    {HttpUri, HttpPortUri, HttpsUri, HttpsPortUri, HttpsDefaultPortUri,
     HttpNestedUri, HttpRootUri, RegistryShortTagUri, RegistryTagUri,
     RegistryPortTagUri, RegistryLatestUri, RegistryPortLatestUri,
     RegistryUntaggedUri, RegistryPortUntaggedUri}

OtherRoot == <<"srv", "policies">>

ResolvePolicies ==
    {MainStore, StoreAt(CustomRoot), StoreAt(OtherRoot), LocalFile(Cwd),
     LocalFile(NamedFile), LocalFile(<<"missing">>)}

-----------------------------------------------------------------------------
(* The orchestrator as a state machine *)

Parent(p) == Front(p)

\* The fetcher can create or replace a file at p.
Writable(fsys, p) == p # <<>> /\ Kind(fsys, p) # "dir" /\ IsDir(fsys, Parent(p))

Put(fsys, p, kind) ==
    [q \in DOMAIN fsys \cup {p} |-> IF q = p THEN kind ELSE fsys[q]]

Unresolved == [ok |-> FALSE, store |-> NoStore, path |-> <<>>]

\* A scheme match that lets ftp through as well.
FetchableWithFtp == {"http", "https", "registry", "ftp"}

Fetchable == {"http", "https", "registry"}

InitFetch ==
    /\ fs \in {Put(<<>>, Cwd, "dir"), Put(Put(<<>>, Cwd, "dir"), NamedFile, "file")}
    /\ pc = "idle"
    /\ req = [uri |-> <<>>, policy |-> MainStore]
    /\ parsedUrl = ParseError
    /\ resolved = Unresolved
    /\ ensured = "skipped"
    /\ seen = "unchecked"
    /\ reached = "idle"
    /\ fetches = 0
    /\ result = NoResult
    /\ calls = 0
    /\ populated = {}

\* A call of fetch_policy, up to its return or to the await on the fetcher.
\* The call's locals are held in parsedUrl, resolved, ensured and seen; reached
\* names the statement that ended this part of the call.
fetch_policy(uri, destination) ==
    /\ pc \in {"idle", "done", "cancelled"}
    /\ calls < MaxCalls
    /\ calls' = calls + 1
    /\ req' = [uri |-> uri, policy |-> destination]
    /\ parsedUrl' = UrlParse(uri)
    /\ resolved' = IF parsedUrl'.ok /\ parsedUrl'.scheme \in Fetchable
                   THEN pull_destination(parsedUrl', destination, fs)
                   ELSE Unresolved
    /\ LET en == IF resolved'.ok /\ resolved'.store # NoStore
                 THEN ensure(fs, policy_full_path(resolved'.store, as_str(parsedUrl'),
                                                  "PrefixOnly").path)
                 ELSE [ok |-> resolved'.ok, fs |-> fs]
       IN /\ fs' = en.fs
          /\ ensured' = IF ~resolved'.ok \/ resolved'.store = NoStore THEN "skipped"
                        ELSE IF en.ok THEN "ok" ELSE "failed"
    /\ reached' = IF ~parsedUrl'.ok THEN "parse"
                  ELSE IF parsedUrl'.scheme = "file" THEN "file"
                  ELSE IF parsedUrl'.scheme \notin Fetchable THEN "scheme"
                  ELSE IF ~resolved'.ok THEN "resolve"
                  ELSE IF ensured' = "failed" THEN "ensure"
                  ELSE IF reuse(parsedUrl', fs', resolved'.path) THEN "reuse"
                  ELSE IF url_fetcher(parsedUrl'.scheme) = "unknown scheme" THEN "fetcher"
                  ELSE "fetch"
    /\ seen' = IF reached' \in {"reuse", "fetcher", "fetch"}
               THEN Kind(fs', resolved'.path) ELSE "unchecked"
    /\ fetches' = IF reached' = "fetch" THEN 1 ELSE 0
    /\ pc' = IF reached' = "fetch" THEN "fetching" ELSE "done"
    /\ result' = CASE reached' = "parse" -> Err("InvalidURI")
                   [] reached' = "file" -> to_file_path(parsedUrl')
                   [] reached' = "scheme" -> Err("unknown scheme")
                   [] reached' = "resolve" -> Err("InvalidURI")
                   [] reached' = "ensure" -> Err("StoreIOError")
                   [] reached' = "reuse" -> Ok(resolved'.path)
                   [] reached' = "fetcher" -> Err("unknown scheme")
                   [] reached' = "fetch" -> NoResult
    /\ UNCHANGED populated

\* The fetcher writes the artifact and succeeds; fetch_policy returns the
\* destination.
FetchSucceeds ==
    /\ pc = "fetching"
    /\ Writable(fs, resolved.path)
    /\ fs' = Put(fs, resolved.path, "file")
    /\ pc' = "done"
    /\ result' = Ok(resolved.path)
    /\ populated' = populated \cup {<<req.uri, req.policy, resolved.path, calls>>}
    /\ UNCHANGED <<req, parsedUrl, resolved, ensured, seen, reached, fetches, calls>>

\* The fetcher fails, having written nothing or part of the artifact;
\* fetch_policy returns its error.
FetchFails(wrote) ==
    /\ pc = "fetching"
    /\ wrote => Writable(fs, resolved.path)
    /\ fs' = IF wrote THEN Put(fs, resolved.path, "partial") ELSE fs
    /\ pc' = "done"
    /\ result' = Err("FetchFailed")
    /\ UNCHANGED <<req, parsedUrl, resolved, ensured, seen, reached, fetches, calls,
                   populated>>

\* The caller drops the call while it awaits the fetcher.
Cancel(wrote) ==
    /\ pc = "fetching"
    /\ wrote => Writable(fs, resolved.path)
    /\ fs' = IF wrote THEN Put(fs, resolved.path, "partial") ELSE fs
    /\ pc' = "cancelled"
    /\ UNCHANGED <<req, parsedUrl, resolved, ensured, seen, reached, fetches, result,
                   calls, populated>>

\* Destination resolution on its own: pull_destination applied to one
\* request in one filesystem.
ResolveFilesystems ==
    {Put(<<>>, Cwd, "dir"),
     Put(Put(<<>>, Cwd, "dir"), NamedFile, "file"),
     Put(Put(<<>>, Cwd, "dir"), NamedFile, "dir")}

InitResolve ==
    /\ fs \in ResolveFilesystems
    /\ req \in [uri : ResolveUris, policy : ResolvePolicies]
    /\ pc = "resolving"
    /\ parsedUrl = ParseError
    /\ resolved = Unresolved
    /\ ensured = "skipped"
    /\ seen = "unchecked"
    /\ reached = "idle"
    /\ fetches = 0
    /\ result = NoResult
    /\ calls = 0
    /\ populated = {}

Resolve ==
    /\ pc = "resolving"
    /\ parsedUrl' = UrlParse(req.uri)
    /\ resolved' = pull_destination(parsedUrl', req.policy, fs)
    /\ pc' = "resolved"
    /\ UNCHANGED <<fs, req, ensured, seen, reached, fetches, result, calls, populated>>

-----------------------------------------------------------------------------
(* Docker configuration: base64 and the per-entry validation *)

Colon == 58        \* b':'

\* The bytes credentials are written with here: ':', 'p' and 'u'.
Alphabet == {58, 112, 117}

\* Base64 symbols are the values 0..63; Pad is '='; NotASymbol stands for a
\* character outside the base64 alphabet.
Pad == 64
NotASymbol == 65

\* All byte strings over a set of bytes, of length at most n.
ByteStrings(bytes, n) == UNION {[1..k -> bytes] : k \in 0..n}

\* base64::encode, standard alphabet with padding.
B64Encode(b) ==
    LET n == Len(b)
        byte(i) == IF i <= n THEN b[i] ELSE 0
        sym(g, k) ==
            CASE k = 1 -> (byte(3 * g - 2) \div 4)
              [] k = 2 -> ((byte(3 * g - 2) % 4) * 16) + (byte(3 * g - 1) \div 16)
              [] k = 3 -> IF 3 * g - 1 <= n
                          THEN ((byte(3 * g - 1) % 16) * 4) + (byte(3 * g) \div 64)
                          ELSE Pad
              [] k = 4 -> IF 3 * g <= n THEN byte(3 * g) % 64 ELSE Pad
    IN [i \in 1..(4 * ((n + 2) \div 3)) |-> sym(((i - 1) \div 4) + 1, ((i - 1) % 4) + 1)]

\* base64::decode: an error for a text whose length is no multiple of four,
\* that holds a character outside the alphabet, padding anywhere but in its
\* last two places, or a last symbol with bits set beyond the data.
B64Decode(t) ==
    LET n == Len(t)
        pads == Cardinality({i \in 1..n : t[i] = Pad})
        wellFormed ==
            /\ n % 4 = 0
            /\ \A i \in 1..n : t[i] \in 0..Pad
            /\ pads <= 2
            /\ \A i \in 1..n : t[i] = Pad => i > n - pads
            /\ pads = 1 => t[n - 1] % 4 = 0
            /\ pads = 2 => t[n - 2] % 16 = 0
        byte(j) ==
            LET g == 4 * ((j - 1) \div 3)
            IN CASE (j - 1) % 3 = 0 -> (t[g + 1] * 4) + (t[g + 2] \div 16)
                 [] (j - 1) % 3 = 1 -> ((t[g + 2] % 16) * 16) + (t[g + 3] \div 4)
                 [] (j - 1) % 3 = 2 -> ((t[g + 3] % 4) * 64) + t[g + 4]
    IN IF wellFormed
       THEN [ok |-> TRUE, bytes |-> [j \in 1..((3 * (n \div 4)) - pads) |-> byte(j)]]
       ELSE [ok |-> FALSE, bytes |-> <<>>]

\* Option<String> of RegistryAuthRaw.auth
NoAuth == [some |-> FALSE, text |-> <<>>]
SomeAuth(t) == [some |-> TRUE, text |-> t]

\* Result<Option<RegistryAuth>>
OkNone == [ok |-> TRUE, some |-> FALSE, username |-> <<>>, password |-> <<>>,
           error |-> ""]
OkBasicAuth(u, p) == [ok |-> TRUE, some |-> TRUE, username |-> u, password |-> p,
                      error |-> ""]
AuthErr(e) == [ok |-> FALSE, some |-> FALSE, username |-> <<>>, password |-> <<>>,
               error |-> e]

\* impl TryFrom<RegistryAuthRaw> for OptionalRegistryAuth
OptionalRegistryAuth_try_from(auth) ==
    IF auth.some
    THEN IF B64Decode(auth.text).ok
         THEN LET splitted == Split(B64Decode(auth.text).bytes, Colon)
              IN IF Len(splitted) = 2
                 THEN OkBasicAuth(splitted[1], splitted[2])
                 ELSE AuthErr("basic auth not in the form username:password")
         ELSE AuthErr("invalid base64 encoding")
    ELSE OkNone

\* RegistryAuth::BasicAuth
BasicAuth(u, p) == [username |-> u, password |-> p]

\* impl TryFrom<DockerConfigRaw> for DockerConfig: every host whose entry
\* converts to Ok(Some(auth)) is kept with that auth; the others are left
\* out; creds_store is copied.
DockerConfig_try_from(docker_config) ==
    LET auths == docker_config.auths.map
        kept == {host \in DOMAIN auths :
                    /\ OptionalRegistryAuth_try_from(auths[host]).ok
                    /\ OptionalRegistryAuth_try_from(auths[host]).some}
    IN [ok |-> TRUE,
        auths |-> IF docker_config.auths.some
                  THEN [host \in kept |->
                           BasicAuth(OptionalRegistryAuth_try_from(auths[host]).username,
                                     OptionalRegistryAuth_try_from(auths[host]).password)]
                  ELSE <<>>,
        creds_store |-> docker_config.creds_store]

\* The auth texts tried: the encoding of every credential text of at most
\* MaxLen bytes, a text with a character outside the alphabet, one of a
\* length base64 never has, and one padded in the middle.
AuthTexts ==
    {B64Encode(b) : b \in ByteStrings(Alphabet, MaxLen)}
        \cup {<<29, 23, NotASymbol, 48>>, <<29>>, <<29, Pad, 23, 48>>}

AuthOptions == {NoAuth} \cup {SomeAuth(t) : t \in AuthTexts}

Hosts == {"auth-registry.example.com", "authless-registry.example.com"}

\* Option<String> of creds_store: "" is None.
CredsStores == {"", "desktop"}

\* The raw documents: no auths key, or an entry for the first host (any
\* auth) together with none or one for the second (a few of the auths).
SecondOptions ==
    {NoAuth, SomeAuth(B64Encode(<<117, 58, 112>>)), SomeAuth(B64Encode(<<117, 112>>)),
     SomeAuth(<<29>>)}

RawConfigs ==
    {[auths |-> [some |-> FALSE, map |-> <<>>], creds_store |-> c] : c \in CredsStores}
    \cup {[auths |-> [some |-> TRUE, map |-> m], creds_store |-> c] :
            m \in [{"auth-registry.example.com"} -> AuthOptions], c \in CredsStores}
    \cup {[auths |-> [some |-> TRUE, map |-> m], creds_store |-> c] :
            m \in [Hosts -> AuthOptions] , c \in CredsStores}

InitConfig ==
    /\ raw \in {r \in RawConfigs :
                   "authless-registry.example.com" \in DOMAIN r.auths.map =>
                       r.auths.map["authless-registry.example.com"] \in SecondOptions}
    /\ cfgpc = "ready"
    /\ config = [ok |-> FALSE, auths |-> <<>>, creds_store |-> ""]

\* DockerConfigRaw.try_into()
Convert ==
    /\ cfgpc = "ready"
    /\ config' = DockerConfig_try_from(raw)
    /\ cfgpc' = "done"
    /\ UNCHANGED raw

\* One entry: the auth text is the base64 of username ':' password, and the
\* validator is applied to it.
InitEntry ==
    /\ entry \in {e \in [username : ByteStrings(Alphabet \ {Colon}, MaxLen - 1),
                         password : ByteStrings(Alphabet, MaxLen - 1)] :
                     Len(e.username) + 1 + Len(e.password) <= MaxLen}
    /\ entrypc = "ready"
    /\ entryAuth = [text |-> <<>>, answer |-> OkNone]

Validate ==
    /\ entrypc = "ready"
    /\ LET text == B64Encode(entry.username \o <<Colon>> \o entry.password)
       IN entryAuth' = [text |-> text,
                        answer |-> OptionalRegistryAuth_try_from(SomeAuth(text))]
    /\ entrypc' = "done"
    /\ UNCHANGED entry

-----------------------------------------------------------------------------
(* The credential helper *)

\* What the helper process writes to its standard output: whether the bytes
\* are UTF-8, their text, whether they are a JSON object, and its fields
\* with, for each, whether the value is a string.
Document(text, fields) == [utf8 |-> TRUE, text |-> text, object |-> TRUE, fields |-> fields]

Field(value) == [string |-> TRUE, value |-> value]

Outputs ==
    {Document("{ServerURL,Username,Secret}",
              [f \in {"ServerURL", "Username", "Secret"} |->
                  Field(CASE f = "ServerURL" -> "auth-registry.example.com"
                          [] f = "Username" -> "user"
                          [] f = "Secret" -> "pass")]),
     Document("{Username,Secret}",
              [f \in {"Username", "Secret"} |->
                  Field(IF f = "Username" THEN "other" ELSE "token")]),
     Document("{username,secret}",
              [f \in {"username", "secret"} |->
                  Field(IF f = "username" THEN "user" ELSE "pass")]),
     Document("{Username}", [f \in {"Username"} |-> Field("user")]),
     Document("{Username,Secret:42}",
              [f \in {"Username", "Secret"} |->
                  IF f = "Username" THEN Field("user")
                  ELSE [string |-> FALSE, value |-> "42"]]),
     [utf8 |-> TRUE, text |-> "credentials not found in native keychain",
      object |-> FALSE, fields |-> <<>>],
     [utf8 |-> TRUE, text |-> "", object |-> FALSE, fields |-> <<>>],
     [utf8 |-> FALSE, text |-> "(bytes that are not UTF-8)", object |-> FALSE,
      fields |-> <<>>]}

\* serde_json::from_slice::<CredentialsHelperResponse>: the fields Username
\* and Secret (PascalCase, both strings) of a JSON object; other fields are
\* ignored.
from_slice(stdout) ==
    IF /\ stdout.object
       /\ {"Username", "Secret"} \subseteq DOMAIN stdout.fields
       /\ stdout.fields["Username"].string
       /\ stdout.fields["Secret"].string
    THEN [ok |-> TRUE, username |-> stdout.fields["Username"].value,
          secret |-> stdout.fields["Secret"].value]
    ELSE [ok |-> FALSE, username |-> "", secret |-> ""]

\* String::from_utf8(res.stdout).unwrap_or_default()
from_utf8_or_default(stdout) == IF stdout.utf8 THEN stdout.text ELSE ""

\* Option<Result<RegistryAuth>>
HelperNone == [kind |-> "none", username |-> "", password |-> "", message |-> ""]
HelperAuth(u, p) == [kind |-> "auth", username |-> u, password |-> p, message |-> ""]
HelperErr(m) == [kind |-> "error", username |-> "", password |-> "", message |-> m]
HelperPending == [kind |-> "pending", username |-> "", password |-> "", message |-> ""]

NoStatus == -1

\* The lookups tried: a DockerConfig with or without creds_store, a
\* registry host, and a helper process that may fail to start, to take its
\* input or to be waited for, and that exits with some status and output.
InitHelper ==
    /\ helper \in [creds_store : CredsStores, registry : Hosts,
                   spawns : BOOLEAN, takesInput : BOOLEAN, waits : BOOLEAN,
                   status : {0, 1}, stdout : Outputs]
    /\ hpc = "ready"
    /\ hstate = [spawned |-> 0, program |-> "", arg |-> "", stdin |-> "",
                 status |-> NoStatus, parsed |-> FALSE, result |-> HelperPending]

\* get_auth_from_credentials_helper_if_present, and in
\* get_auth_from_credentials_helper the start of the helper process.
Spawn ==
    /\ hpc = "ready"
    /\ IF helper.creds_store = ""
       THEN /\ hstate' = [hstate EXCEPT !.result = HelperNone]
            /\ hpc' = "done"
       ELSE /\ hstate' = [hstate EXCEPT
                             !.spawned = @ + 1,
                             !.program = "docker-credential-" \o helper.creds_store,
                             !.arg = "get",
                             !.result = IF helper.spawns THEN HelperPending
                                        ELSE HelperErr("spawn failed")]
            /\ hpc' = IF helper.spawns THEN "spawned" ELSE "done"
    /\ UNCHANGED helper

\* stdin.write_all(registry.as_bytes())?
WriteStdin ==
    /\ hpc = "spawned"
    /\ IF helper.takesInput
       THEN /\ hstate' = [hstate EXCEPT !.stdin = helper.registry]
            /\ hpc' = "written"
       ELSE /\ hstate' = [hstate EXCEPT !.result = HelperErr("write failed")]
            /\ hpc' = "done"
    /\ UNCHANGED helper

\* A wait that parses the output without a look at the exit status.
WaitWithOutputIgnoringStatus ==
    /\ hpc = "written"
    /\ hstate' =
          IF ~helper.waits
          THEN [hstate EXCEPT !.result = HelperErr("wait failed")]
          ELSE [hstate EXCEPT
                   !.status = helper.status,
                   !.parsed = TRUE,
                   !.result = IF from_slice(helper.stdout).ok
                              THEN HelperAuth(from_slice(helper.stdout).username,
                                              from_slice(helper.stdout).secret)
                              ELSE HelperErr("response malformed")]
    /\ hpc' = "done"
    /\ UNCHANGED helper

\* process.wait_with_output()?, the check of the exit status and the parse
\* of the output.
WaitWithOutput ==
    /\ hpc = "written"
    /\ hstate' =
          IF ~helper.waits
          THEN [hstate EXCEPT !.result = HelperErr("wait failed")]
          ELSE IF helper.status # 0
          THEN [hstate EXCEPT
                   !.status = helper.status,
                   !.result = HelperErr(
                       "Error retrieving credentials from credential store: "
                           \o from_utf8_or_default(helper.stdout))]
          ELSE [hstate EXCEPT
                   !.status = helper.status,
                   !.parsed = TRUE,
                   !.result = IF from_slice(helper.stdout).ok
                              THEN HelperAuth(from_slice(helper.stdout).username,
                                              from_slice(helper.stdout).secret)
                              ELSE HelperErr("response malformed")]
    /\ hpc' = "done"
    /\ UNCHANGED helper

InitConfigIdle ==
    /\ raw = [auths |-> [some |-> FALSE, map |-> <<>>], creds_store |-> ""]
    /\ cfgpc = "off"
    /\ config = [ok |-> FALSE, auths |-> <<>>, creds_store |-> ""]

InitEntryIdle ==
    /\ entry = [username |-> <<>>, password |-> <<>>]
    /\ entrypc = "off"
    /\ entryAuth = [text |-> <<>>, answer |-> OkNone]

InitHelperIdle ==
    /\ helper = [creds_store |-> "", registry |-> "auth-registry.example.com",
                 spawns |-> FALSE, takesInput |-> FALSE, waits |-> FALSE,
                 status |-> 0, stdout |-> [utf8 |-> TRUE, text |-> "",
                                           object |-> FALSE, fields |-> <<>>]]
    /\ hpc = "off"
    /\ hstate = [spawned |-> 0, program |-> "", arg |-> "", stdin |-> "",
                 status |-> NoStatus, parsed |-> FALSE, result |-> HelperPending]

Init == InitFetch /\ InitConfigIdle /\ InitEntryIdle /\ InitHelperIdle

Next ==
    \/ \E uri \in FetchUris, destination \in FetchPolicies :
          fetch_policy(uri, destination) /\ UNCHANGED <<configVars, entryVars, helperVars>>
    \/ FetchSucceeds /\ UNCHANGED <<configVars, entryVars, helperVars>>
    \/ \E wrote \in BOOLEAN :
          FetchFails(wrote) /\ UNCHANGED <<configVars, entryVars, helperVars>>
    \/ \E wrote \in BOOLEAN :
          Cancel(wrote) /\ UNCHANGED <<configVars, entryVars, helperVars>>

Spec == Init /\ [][Next]_vars

InitFetchIdle ==
    /\ fs = Put(<<>>, Cwd, "dir")
    /\ pc = "off"
    /\ req = [uri |-> <<>>, policy |-> MainStore]
    /\ parsedUrl = ParseError
    /\ resolved = Unresolved
    /\ ensured = "skipped"
    /\ seen = "unchecked"
    /\ reached = "idle"
    /\ fetches = 0
    /\ result = NoResult
    /\ calls = 0
    /\ populated = {}

NextConfig == Convert /\ UNCHANGED <<fetchVars, entryVars, helperVars>>

InitConfigOnly == InitFetchIdle /\ InitConfig /\ InitEntryIdle /\ InitHelperIdle

SpecConfig == InitConfigOnly /\ [][NextConfig]_vars

NextEntry == Validate /\ UNCHANGED <<fetchVars, configVars, helperVars>>

InitEntryOnly == InitFetchIdle /\ InitConfigIdle /\ InitEntry /\ InitHelperIdle

SpecEntry == InitEntryOnly /\ [][NextEntry]_vars

NextHelper ==
    \/ Spawn /\ UNCHANGED <<fetchVars, configVars, entryVars>>
    \/ WriteStdin /\ UNCHANGED <<fetchVars, configVars, entryVars>>
    \/ WaitWithOutput /\ UNCHANGED <<fetchVars, configVars, entryVars>>

InitHelperOnly == InitFetchIdle /\ InitConfigIdle /\ InitEntryIdle /\ InitHelper

SpecHelper == InitHelperOnly /\ [][NextHelper]_vars

NextResolve == Resolve /\ UNCHANGED <<configVars, entryVars, helperVars>>

InitResolveOnly == InitResolve /\ InitConfigIdle /\ InitEntryIdle /\ InitHelperIdle

SpecResolve == InitResolveOnly /\ [][NextResolve]_vars

-----------------------------------------------------------------------------
(* What the claims speak of, read off the text of the requested URI *)

\* The tokens of the URI's path: what follows the authority.
UriPath(uri) ==
    LET slash == {i \in 4..Len(uri) : uri[i] = "/"}
    IN IF slash = {} THEN <<>>
       ELSE SubSeq(uri, CHOOSE i \in slash : \A j \in slash : i <= j, Len(uri))

\* The last '/'-delimited segment of the URI's path, as tokens.
LastSegment(uri) ==
    LET path == UriPath(uri)
        slash == {i \in 1..Len(path) : path[i] = "/"}
    IN IF slash = {} THEN path
       ELSE SubSeq(path, (CHOOSE i \in slash : \A j \in slash : j <= i) + 1, Len(path))

\* The trailing tag of the URI: what follows the ':' of its last segment;
\* "" when the last segment has none.
TrailingTag(uri) ==
    LET seg == LastSegment(uri)
        colon == {i \in 1..Len(seg) : seg[i] = ":"}
    IN IF colon = {} THEN ""
       ELSE Flatten(SubSeq(seg, (CHOOSE i \in colon : \A j \in colon : j <= i) + 1,
                           Len(seg)))

UriScheme(uri) == IF Len(uri) >= 2 /\ uri[2] = ":" THEN uri[1] ELSE ""

\* The call has returned or was dropped.
Over == pc \in {"done", "cancelled"}

\* The reuse check of the current call ran.
Checked == seen # "unchecked"

-----------------------------------------------------------------------------
(* C1 *)

\* C1: for an http or https URI the fetcher is invoked if and only if
\* nothing exists at the resolved destination when the reuse check runs; when
\* something exists the call returns that path with no fetcher invocation;
\* and a later call with the URI and Destination Policy of a call whose fetch
\* populated the destination returns the same path with no fetcher invocation.
C1_HttpReuse ==
    (pc # "idle" /\ UriScheme(req.uri) \in {"http", "https"}) =>
        /\ fetches = 1 <=> (Checked /\ seen = "absent")
        /\ (Checked /\ seen # "absent") =>
              pc = "done" /\ result = Ok(resolved.path) /\ fetches = 0
        /\ \A e \in populated :
              (e[1] = req.uri /\ e[2] = req.policy /\ e[4] < calls) =>
                  pc = "done" /\ result = Ok(e[3]) /\ fetches = 0

\* A second call for an http URI whose destination an earlier call of the
\* same request populated: it returned the path and fetched nothing.
C1_Witness ==
    /\ pc = "done"
    /\ req.uri = HttpUri
    /\ \E e \in populated : e[1] = req.uri /\ e[2] = req.policy /\ e[4] < calls
    /\ seen = "file"
    /\ fetches = 0
    /\ result = Ok(resolved.path)

-----------------------------------------------------------------------------
(* C2 *)

\* C2: for a registry URI whose reuse check runs, the fetcher is invoked on
\* every call when the URI's trailing tag is exactly latest, even if a file
\* exists at the destination; for any other tag or no tag the call returns
\* the existing destination without invoking the fetcher when a file is
\* there, and invokes the fetcher only when the destination is absent.
C2_RegistryLatest ==
    (Checked /\ UriScheme(req.uri) = "registry") =>
        IF TrailingTag(req.uri) = "latest"
        THEN fetches = 1
        ELSE /\ fetches = 1 <=> seen = "absent"
             /\ seen # "absent" =>
                   pc = "done" /\ result = Ok(resolved.path) /\ fetches = 0

\* A call for a registry URI tagged latest found a file at its destination
\* and invoked the fetcher all the same.
C2_Witness ==
    /\ UriScheme(req.uri) = "registry"
    /\ TrailingTag(req.uri) = "latest"
    /\ seen = "file"
    /\ fetches = 1

\* A call for a registry URI with another tag found a file at its
\* destination and returned it without fetching.
C2_WitnessTagged ==
    /\ UriScheme(req.uri) = "registry"
    /\ TrailingTag(req.uri) = "tag"
    /\ seen = "file"
    /\ fetches = 0
    /\ result = Ok(resolved.path)

-----------------------------------------------------------------------------
(* C3 *)

\* The filesystem path a file URI encodes: the segments of its path.
EncodedFilePath(uri) ==
    LET pieces == Split(UriPath(uri), "/")
        names == [i \in 1..Len(pieces) |-> Flatten(pieces[i])]
        kept == {i \in 1..Len(names) : names[i] # ""}
    IN [j \in 1..Cardinality(kept) |->
           names[CHOOSE i \in kept : Cardinality({k \in kept : k < i}) = j - 1]]

\* The URI names a host other than localhost.
RemoteHost(uri) ==
    Len(uri) >= 4 /\ uri[3] = "//" /\ uri[4] \notin {"/", "localhost"}

\* A step that is a call of fetch_policy for a URI that does not parse or
\* whose scheme is none of http, https and registry.
NotFetchableCall ==
    /\ calls' = calls + 1
    /\ UriScheme(req'.uri) \notin {"http", "https", "registry"}

\* C3 as stated: such a call creates no directory, resolves no destination
\* and invokes no fetcher, and a file URI returns the path it encodes while
\* any other such URI returns an error.
C3_FileAlwaysPath ==
    (pc # "idle" /\ UriScheme(req.uri) \notin {"http", "https", "registry"}) =>
        /\ pc = "done" /\ fetches = 0 /\ ensured = "skipped" /\ resolved = Unresolved
        /\ UriScheme(req.uri) = "file" => result = Ok(EncodedFilePath(req.uri))
        /\ UriScheme(req.uri) # "file" => ~result.ok

\* C3, amended: a call for a URI that does not parse or whose scheme is none
\* of http, https and registry leaves the filesystem as it was, resolves no
\* destination, creates no directory and invokes no fetcher; it returns at
\* once: for a file URI the path the URI encodes, or an error when the URI
\* names a host other than localhost; for any other such URI an error.
C3_NoEffectUnlessFetchable ==
    [][NotFetchableCall =>
        /\ fs' = fs
        /\ pc' = "done" /\ fetches' = 0 /\ ensured' = "skipped"
        /\ resolved' = Unresolved /\ seen' = "unchecked"
        /\ UNCHANGED populated
        /\ IF UriScheme(req'.uri) = "file" /\ ~RemoteHost(req'.uri)
           THEN result' = Ok(EncodedFilePath(req'.uri))
           ELSE ~result'.ok]_vars

\* A call for a file URI returned the path it encodes although the
\* Destination Policy named a store.
C3_Witness ==
    /\ pc = "done"
    /\ req.uri = FileUri
    /\ req.policy = MainStore
    /\ result = Ok(<<"tmp", "policy.wasm">>)
    /\ fetches = 0
    /\ \A q \in DOMAIN fs : q[1] # "cache"

-----------------------------------------------------------------------------
(* C4 *)

\* C4 as stated: under LocalFile neither the creation of the prefix
\* directories nor the reuse check applies: the fetcher is invoked for every
\* http, https or registry URI, also when a file exists at the destination.
C4_LocalFileAlwaysFetches ==
    (pc # "idle" /\ req.policy.kind = "LocalFile"
       /\ UriScheme(req.uri) \in {"http", "https", "registry"}) =>
        ensured = "skipped" /\ fetches = 1

\* C4, amended: under LocalFile no Store is returned and no prefix directory
\* is created, and the reuse check applies as it does for a store: the
\* fetcher is invoked exactly when nothing exists at the destination or the
\* URI is a registry URI whose tag is latest; otherwise the call returns the
\* existing destination.
C4_LocalFileReuses ==
    (pc # "idle" /\ req.policy.kind = "LocalFile"
       /\ UriScheme(req.uri) \in {"http", "https", "registry"}) =>
        /\ ensured = "skipped" /\ resolved.store = NoStore
        /\ Checked
        /\ fetches = 1 <=>
              (seen = "absent"
                 \/ (UriScheme(req.uri) = "registry" /\ TrailingTag(req.uri) = "latest"))
        /\ fetches = 0 => pc = "done" /\ result = Ok(resolved.path)

\* A call under LocalFile found a file at its destination and returned it
\* without invoking the fetcher.
C4_Witness ==
    /\ pc = "done"
    /\ req.policy = LocalFile(NamedFile)
    /\ req.uri = HttpUri
    /\ seen = "file"
    /\ fetches = 0
    /\ result = Ok(NamedFile)

-----------------------------------------------------------------------------
(* C5 *)

\* C5: a destination file left partially written by a fetch that failed or
\* was cancelled is invalid for the reuse check of every later call: the
\* call invokes the fetcher again and does not return the partial file's
\* path as a success.
C5_PartialNotReused ==
    (Checked /\ seen = "partial") =>
        fetches = 1 /\ ~(pc = "done" /\ result.ok /\ Kind(fs, result.path) = "partial")

-----------------------------------------------------------------------------
(* C8 *)

\* The host of the URI and the port written after it ("" when none is).
UriHost(uri) == uri[4]

UriPort(uri) == IF Len(uri) >= 6 /\ uri[5] = ":" THEN uri[6] ELSE ""

\* <host>[:<port>]: the port is shown when the URI writes one that is not
\* the well-known port of its scheme.
ShownAuthority(uri) ==
    IF UriPort(uri) = ""
         \/ (UriScheme(uri) = "http" /\ UriPort(uri) = "80")
         \/ (UriScheme(uri) = "https" /\ UriPort(uri) = "443")
    THEN UriHost(uri)
    ELSE UriHost(uri) \o ":" \o UriPort(uri)

\* C8: for MainStore or Store(root), pull_destination returns a Store rooted
\* at the default root or at root, and the path
\* root/<scheme>/<host>[:<port>]/<uri-path>, for every http, https and
\* registry URI; the port appears only when the URI writes it, and the last
\* segment of a registry URI keeps its :tag suffix.
C8_StorePath ==
    (pc = "resolved" /\ req.policy.kind \in {"MainStore", "Store"}) =>
        LET root == IF req.policy.kind = "MainStore" THEN DefaultRoot
                    ELSE req.policy.path
        IN /\ resolved.ok
           /\ resolved.store = root
           /\ resolved.path =
                 root \o <<UriScheme(req.uri), ShownAuthority(req.uri)>>
                      \o EncodedFilePath(req.uri)
           /\ UriPort(req.uri) = "" =>
                 resolved.path[Len(root) + 2] = UriHost(req.uri)
           /\ (UriScheme(req.uri) = "registry" /\ LastSegment(req.uri) # <<>>) =>
                 Last(resolved.path) = Flatten(LastSegment(req.uri))
           /\ (req.uri = HttpPortUri /\ req.policy = MainStore) =>
                 resolved.path = <<"cache", "http", "host.example.com:1234",
                                   "path", "to", "policy.wasm">>
           /\ (req.uri = HttpsUri /\ req.policy = MainStore) =>
                 resolved.path = <<"cache", "https", "host.example.com",
                                   "path", "to", "policy.wasm">>
           /\ (req.uri = RegistryPortTagUri /\ req.policy = MainStore) =>
                 resolved.path = <<"cache", "registry", "host.example.com:1234",
                                   "path", "to", "policy:tag">>
           /\ (req.uri = RegistryShortTagUri /\ req.policy = StoreAt(OtherRoot)) =>
                 resolved.path = <<"srv", "policies", "registry",
                                   "host.example.com", "policy:tag">>

\* pull_destination resolved a registry URI with a port and a tag under an
\* explicit store root.
C8_Witness ==
    /\ pc = "resolved"
    /\ req.uri = RegistryPortTagUri
    /\ req.policy = StoreAt(CustomRoot)
    /\ resolved.store = CustomRoot
    /\ resolved.path = <<"custom", "registry", "host.example.com:1234",
                         "path", "to", "policy:tag">>

-----------------------------------------------------------------------------
(* C9 *)

\* C9: for LocalFile(p), pull_destination returns no Store and, when p names
\* an existing directory, p joined with the last '/'-delimited segment of the
\* URI's path; otherwise p itself, whatever the URI's filename is.
C9_LocalFilePath ==
    (pc = "resolved" /\ req.policy.kind = "LocalFile") =>
        LET p == req.policy.path
            name == Flatten(LastSegment(req.uri))
        IN /\ resolved.ok
           /\ resolved.store = NoStore
           /\ resolved.path =
                 IF p \in DOMAIN fs /\ fs[p] = "dir"
                 THEN (IF name = "" THEN p ELSE p \o <<name>>)
                 ELSE p
           /\ (req.uri = HttpsPortUri /\ p = Cwd) =>
                 resolved.path = <<"cwd", "policy.wasm">>
           /\ (req.uri = HttpsPortUri /\ p = NamedFile /\ NamedFile \notin DOMAIN fs) =>
                 resolved.path = <<"cwd", "named-policy.wasm">>

\* pull_destination joined the URI's filename onto an existing directory.
C9_Witness ==
    /\ pc = "resolved"
    /\ req.uri = HttpsPortUri
    /\ req.policy = LocalFile(Cwd)
    /\ resolved = [ok |-> TRUE, store |-> NoStore, path |-> <<"cwd", "policy.wasm">>]

\* pull_destination kept a target that is no directory as it is.
C9_WitnessFile ==
    /\ pc = "resolved"
    /\ req.uri = HttpsPortUri
    /\ req.policy = LocalFile(NamedFile)
    /\ fs[Cwd] = "dir" /\ NamedFile \notin DOMAIN fs
    /\ resolved = [ok |-> TRUE, store |-> NoStore, path |-> NamedFile]

-----------------------------------------------------------------------------
(* C6 *)

\* The credentials an auth text spells: the pairs of a username without ':'
\* and a password of which the text is the base64 of username ':' password.
Spelled(auth) ==
    {e \in [username : ByteStrings(Alphabet \ {Colon}, MaxLen - 1),
            password : ByteStrings(Alphabet, MaxLen - 1)] :
        /\ auth.some
        /\ Len(e.username) + 1 + Len(e.password) <= MaxLen
        /\ auth.text = B64Encode(e.username \o <<Colon>> \o e.password)}

\* C6: the conversion of a raw Docker config never fails; the validated
\* auths hold exactly the hosts whose auth is present, base64-decodable and
\* of the form username:password, each with its decoded BasicAuth; every
\* other entry is dropped without effect on the other hosts; creds_store is
\* carried over.
C6_KeepsWellFormedEntries ==
    cfgpc = "done" =>
        /\ config.ok
        /\ config.creds_store = raw.creds_store
        /\ DOMAIN config.auths =
              {host \in DOMAIN raw.auths.map : Spelled(raw.auths.map[host]) # {}}
        /\ \A host \in DOMAIN config.auths :
              config.auths[host] \in Spelled(raw.auths.map[host])

-----------------------------------------------------------------------------
(* C7 *)

\* C7: for every username without ':' and every password, also one that
\* holds ':', the validator applied to the base64 of username ':' password
\* answers BasicAuth with the bytes before the first ':' as username and all
\* the bytes after it as password.
C7_RoundTripFirstColon ==
    entrypc = "done" =>
        entryAuth.answer = OkBasicAuth(entry.username, entry.password)

-----------------------------------------------------------------------------
(* C10 *)

\* The output is an object with the fields Username and Secret.
HasCredentialFields(stdout) ==
    /\ stdout.object
    /\ \E u, p \in DOMAIN stdout.fields :
          /\ u = "Username" /\ stdout.fields[u].string
          /\ p = "Secret" /\ stdout.fields[p].string

\* C10: the lookup yields no result when no creds_store is configured;
\* otherwise it runs docker-credential-<creds_store> get once, with the host
\* written to its input. A spawn failure is an error; a non-zero exit status
\* is an error whose message carries the helper's output text, and the
\* output is not parsed; with exit status 0 an output that is no object with
\* fields Username and Secret is an error; only exit status 0 with such an
\* output yields BasicAuth, built from those two fields.
C10_HelperOutcomes ==
    hpc = "done" =>
        IF helper.creds_store = ""
        THEN hstate.result = HelperNone /\ hstate.spawned = 0
        ELSE /\ hstate.spawned = 1
             /\ hstate.program = "docker-credential-" \o helper.creds_store
             /\ hstate.arg = "get"
             /\ hstate.result.kind \in {"auth", "error"}
             /\ hstate.status # NoStatus => hstate.stdin = helper.registry
             /\ ~helper.spawns => hstate.result.kind = "error"
             /\ hstate.status \notin {NoStatus, 0} =>
                   /\ hstate.result.kind = "error"
                   /\ ~hstate.parsed
                   /\ hstate.result.message =
                         "Error retrieving credentials from credential store: "
                            \o (IF helper.stdout.utf8 THEN helper.stdout.text ELSE "")
             /\ (hstate.status = 0 /\ ~HasCredentialFields(helper.stdout)) =>
                   hstate.result.kind = "error"
             /\ hstate.result.kind = "auth" <=>
                   (hstate.status = 0 /\ HasCredentialFields(helper.stdout))
             /\ hstate.result.kind = "auth" =>
                   /\ hstate.result.username = helper.stdout.fields["Username"].value
                   /\ hstate.result.password = helper.stdout.fields["Secret"].value

\* The helper exited with status 0 and an object with both fields: the
\* lookup yielded BasicAuth of them.
C10_Witness ==
    /\ hpc = "done"
    /\ helper.creds_store = "desktop"
    /\ hstate.status = 0
    /\ hstate.stdin = helper.registry
    /\ hstate.result = HelperAuth("user", "pass")

\* The helper exited with a non-zero status: the lookup failed with its
\* output in the message, although the output was an object with both fields.
C10_WitnessFailure ==
    /\ hpc = "done"
    /\ hstate.status = 1
    /\ HasCredentialFields(helper.stdout)
    /\ hstate.result.kind = "error"
    /\ hstate.result.message =
          "Error retrieving credentials from credential store: {Username,Secret}"

====
